---- MODULE Spec2Model ----
(***************************************************************************)
(* Esports Tournament Management System API (src/main.py).                 *)
(*                                                                         *)
(* The state is the document store behind the module-level handle `db`:    *)
(* one sequence of documents per collection, in insertion order.  Every    *)
(* request handler of main.py is one action, except attach_team, whose two *)
(* store round trips (find_one on team, update_one on tournament) are two  *)
(* steps of a client so that concurrent attach requests interleave.        *)
(*                                                                         *)
(* Python values: a field that may hold None holds None (<< >>) or a value *)
(* v, written Some(v) (<<v>>).                                             *)
(* Identifier strings: the store identifier n is rendered by str() as the  *)
(* lower-case hex string Lower(n); bson's ObjectId() accepts the hex       *)
(* digits in either case, so Upper(n) parses to the same identifier.       *)
(***************************************************************************)
EXTENDS Integers, Sequences, FiniteSets, TLC

VARIABLES db_configured, next_oid, tournament, team, player, match, group,
          standing, attach_pc, attach_req, resp, gen_calls, reattached

vars == <<db_configured, next_oid, tournament, team, player, match, group,
          standing, attach_pc, attach_req, resp, gen_calls, reattached>>

collections == <<tournament, team, player, match, group, standing>>

\* ---------------------------------------------------------------- bounds
MaxReqId == 3
MaxUpperId == 1
MaxDocs == 4
MaxTournaments == 1
MaxTeams == 2
MaxPlayers == 1
MaxG == 2
MaxT == 4
MaxPoints == 1
NumClients == 2
MaxCalls == 2

\* the upper-case letters 'A'..'Z' and the code point of 'A'
AlphabetLen == 26
OrdA == 65

Clients == 1..NumClients

\* ------------------------------------------------------- python values
None == << >>
Some(v) == <<v>>

Max(a, b) == IF a >= b THEN a ELSE b

\* Python's a // b (floor division) for b # 0
FloorDiv(a, b) == IF b > 0 THEN a \div b ELSE (-a) \div (-b)

\* ---------------------------------------------------------- identifiers
Lower(n) == "5f" \o ToString(n)
Upper(n) == "5F" \o ToString(n)
Malformed == "not-an-id"
InvalidId == 0

WellFormed == {Lower(n) : n \in 1..MaxReqId} \cup {Upper(n) : n \in 1..MaxUpperId}
IdStrings == WellFormed \cup {Malformed}

\* bson.ObjectId(s): the identifier the hex string denotes, or InvalidId
\* where the constructor raises
Parsed ==
    [s \in WellFormed |-> CHOOSE n \in 1..MaxReqId : s = Lower(n) \/ s = Upper(n)]
ObjectId(s) == IF s \in WellFormed THEN Parsed[s] ELSE InvalidId

\* str(oid)
StrOid(oid) == Lower(oid)

\* ------------------------------------------------------------ the store
\* collection.find_one({"_id": oid}): index of the document, 0 if none
FindOne(coll, oid) ==
    IF \E i \in DOMAIN coll : coll[i]._id = oid
    THEN CHOOSE i \in DOMAIN coll : coll[i]._id = oid
    ELSE 0

\* collection.find({"tournament_id": s}), in natural (insertion) order
RECURSIVE FindByTournament(_, _)
FindByTournament(coll, s) ==
    IF coll = << >> THEN << >>
    ELSE IF Head(coll).tournament_id = s
         THEN <<Head(coll)>> \o FindByTournament(Tail(coll), s)
         ELSE FindByTournament(Tail(coll), s)

\* collection.insert_many(docs): the store assigns fresh consecutive ids
InsertMany(coll, docs, first) ==
    coll \o [i \in 1..Len(docs) |->
                [f \in DOMAIN docs[i] \cup {"_id"} |->
                    IF f = "_id" THEN first + i - 1 ELSE docs[i][f]]]

\* database.create_document(collection_name, data)
create_document(coll, data, oid) == InsertMany(coll, <<data>>, oid)

\* mutant of AddToSet: $push, which appends without looking
AddToSet_Push(ids, v) == Append(ids, v)

\* {"$addToSet": {"team_ids": v}} applied to one document
AddToSet(ids, v) ==
    IF \E i \in DOMAIN ids : ids[i] = v THEN ids ELSE Append(ids, v)

\* {"$set": updates} applied to one document
SetFields(doc, updates) ==
    [f \in DOMAIN doc \cup DOMAIN updates |->
        IF f \in DOMAIN updates THEN updates[f] ELSE doc[f]]

\* collection.update_one({"_id": oid}, {"$set": updates})
UpdateOneSet(coll, oid, updates) ==
    [i \in DOMAIN coll |->
        IF i = FindOne(coll, oid) THEN SetFields(coll[i], updates) ELSE coll[i]]

\* mutant of NonNullKeys: `if v` in place of `if v is not None`, which also
\* drops the falsy value 0
NonNullKeys_Truthy(body) ==
    {k \in DOMAIN body :
        body[k] # None /\ ~(k = "total_points" /\ body[k] = Some(0))}

\* {k: v for k, v in payload.model_dump().items() if v is not None}
NonNullKeys(body) == {k \in DOMAIN body : body[k] # None}
Updates(body) == [k \in NonNullKeys(body) |-> body[k]]

\* ------------------------------------------------------------ responses
NoReq == [tournament_id |-> "", team_id |-> ""]
NoResp == [op |-> "none", status |-> 0, detail |-> "", body |-> << >>]

HTTPException(op, code, detail) ==
    [op |-> op, status |-> code, detail |-> detail, body |-> << >>]
Ok(op, body) == [op |-> op, status |-> 200, detail |-> "", body |-> body]
Pending(op) == [op |-> op, status |-> 0, detail |-> "", body |-> << >>]

NotConfigured == "Database not configured"

\* ----------------------------------------------------------------- Init
Init ==
    /\ db_configured \in BOOLEAN
    /\ next_oid = 1
    /\ tournament = << >>
    /\ team = << >>
    /\ player = << >>
    /\ match = << >>
    /\ group = << >>
    /\ standing = << >>
    /\ attach_pc = [c \in Clients |-> "idle"]
    /\ attach_req = [c \in Clients |-> NoReq]
    /\ resp = NoResp
    /\ gen_calls = [s \in WellFormed |-> 0]
    /\ reattached = {}

\* ------------------------------------------------------------- handlers
\* mutant of get_tournament: the identifier is not parsed first, so a
\* malformed one is merely not found
get_tournament_NoParse(tournament_id) ==
    /\ resp' =
         IF ~db_configured THEN HTTPException("get_tournament", 500, NotConfigured)
         ELSE IF FindOne(tournament, ObjectId(tournament_id)) = 0
              THEN HTTPException("get_tournament", 404, "Not found")
         ELSE Ok("get_tournament",
                 tournament[FindOne(tournament, ObjectId(tournament_id))])
    /\ UNCHANGED <<db_configured, next_oid, collections, attach_pc, attach_req,
                   gen_calls, reattached>>

\* GET /tournaments/{tournament_id}
get_tournament(tournament_id) ==
    /\ resp' =
         IF ~db_configured THEN HTTPException("get_tournament", 500, NotConfigured)
         ELSE IF ObjectId(tournament_id) = InvalidId
              THEN HTTPException("get_tournament", 400, "Invalid tournament id")
         ELSE IF FindOne(tournament, ObjectId(tournament_id)) = 0
              THEN HTTPException("get_tournament", 404, "Not found")
         ELSE Ok("get_tournament",
                 tournament[FindOne(tournament, ObjectId(tournament_id))])
    /\ UNCHANGED <<db_configured, next_oid, collections, attach_pc, attach_req,
                   gen_calls, reattached>>

\* POST /tournaments
create_tournament(name, game) ==
    /\ Len(tournament) < MaxTournaments
    /\ IF ~db_configured
       THEN /\ resp' = HTTPException("create_tournament", 500, NotConfigured)
            /\ UNCHANGED <<next_oid, tournament>>
       ELSE /\ tournament' = create_document(tournament,
                   [name |-> name, game |-> game, team_ids |-> << >>], next_oid)
            /\ next_oid' = next_oid + 1
            /\ resp' = Ok("create_tournament",
                   [id |-> StrOid(next_oid), name |-> name, game |-> game,
                    team_ids |-> << >>])
    /\ UNCHANGED <<db_configured, team, player, match, group, standing,
                   attach_pc, attach_req, gen_calls, reattached>>

\* POST /teams
create_team(team_name, team_logo) ==
    /\ Len(team) < MaxTeams
    /\ IF ~db_configured
       THEN /\ resp' = HTTPException("create_team", 500, NotConfigured)
            /\ UNCHANGED <<next_oid, team>>
       ELSE /\ team' = create_document(team,
                   [team_name |-> team_name, team_logo |-> team_logo], next_oid)
            /\ next_oid' = next_oid + 1
            /\ resp' = Ok("create_team",
                   [id |-> StrOid(next_oid), team_name |-> team_name,
                    team_logo |-> team_logo])
    /\ UNCHANGED <<db_configured, tournament, player, match, group, standing,
                   attach_pc, attach_req, gen_calls, reattached>>

\* POST /players
create_player(IGN, UID, player_photo, team_id) ==
    /\ Len(player) < MaxPlayers
    /\ IF ~db_configured
       THEN /\ resp' = HTTPException("create_player", 500, NotConfigured)
            /\ UNCHANGED <<next_oid, player>>
       ELSE /\ player' = create_document(player,
                   [IGN |-> IGN, UID |-> UID, player_photo |-> player_photo,
                    team_id |-> team_id], next_oid)
            /\ next_oid' = next_oid + 1
            /\ resp' = Ok("create_player",
                   [id |-> StrOid(next_oid), IGN |-> IGN, UID |-> UID,
                    player_photo |-> player_photo, team_id |-> team_id])
    /\ UNCHANGED <<db_configured, tournament, team, match, group, standing,
                   attach_pc, attach_req, gen_calls, reattached>>

\* POST /tournaments/{tournament_id}/teams, up to and including
\* db["team"].find_one
attach_team_find(c, tournament_id, team_id) ==
    /\ attach_pc[c] = "idle"
    /\ IF ~db_configured
       THEN /\ resp' = HTTPException("attach_team", 500, NotConfigured)
            /\ UNCHANGED <<attach_pc, attach_req>>
       ELSE IF ObjectId(tournament_id) = InvalidId \/ ObjectId(team_id) = InvalidId
       THEN /\ resp' = HTTPException("attach_team", 400, "Invalid IDs")
            /\ UNCHANGED <<attach_pc, attach_req>>
       ELSE IF FindOne(team, ObjectId(team_id)) = 0
       THEN /\ resp' = HTTPException("attach_team", 404, "Team not found")
            /\ UNCHANGED <<attach_pc, attach_req>>
       ELSE /\ resp' = Pending("attach_team")
            /\ attach_pc' = [attach_pc EXCEPT ![c] = "update"]
            /\ attach_req' = [attach_req EXCEPT ![c] =
                   [tournament_id |-> tournament_id, team_id |-> team_id]]
    /\ UNCHANGED <<db_configured, next_oid, collections, gen_calls, reattached>>

\* attach_team, db["tournament"].update_one(... $addToSet ...) and the return
attach_team_update(c) ==
    /\ attach_pc[c] = "update"
    /\ LET tid == ObjectId(attach_req[c].tournament_id)
           i == FindOne(tournament, tid)
       IN /\ tournament' =
               [j \in DOMAIN tournament |->
                   IF j = i
                   THEN [tournament[j] EXCEPT
                           !.team_ids = AddToSet(@, attach_req[c].team_id)]
                   ELSE tournament[j]]
          /\ reattached' =
               IF tournament' # tournament
                  /\ \E s \in WellFormed : ObjectId(s) = tid /\ gen_calls[s] > 0
               THEN reattached \cup {tid} ELSE reattached
    /\ resp' = Ok("attach_team", [ok |-> TRUE])
    /\ attach_pc' = [attach_pc EXCEPT ![c] = "idle"]
    /\ attach_req' = [attach_req EXCEPT ![c] = NoReq]
    /\ UNCHANGED <<db_configured, next_oid, team, player, match, group,
                   standing, gen_calls>>

\* mutant of PairTeams: range(0, len(team_ids) - 1, 2), which drops the
\* unpaired last team
RECURSIVE PairTeams_DropOdd(_, _, _)
PairTeams_DropOdd(team_ids, i, tournament_id) ==
    IF i >= Len(team_ids) - 1 THEN << >>
    ELSE <<[tournament_id |-> tournament_id,
            round |-> 1,
            team1_id |-> Some(team_ids[i + 1]),
            team2_id |-> Some(team_ids[i + 2]),
            winner_id |-> None]>>
         \o PairTeams_DropOdd(team_ids, i + 2, tournament_id)

\* mutant of PairTeams: the two sides of every pair exchanged
RECURSIVE PairTeams_Swapped(_, _, _)
PairTeams_Swapped(team_ids, i, tournament_id) ==
    IF i >= Len(team_ids) THEN << >>
    ELSE <<[tournament_id |-> tournament_id,
            round |-> 1,
            team1_id |-> IF i + 1 < Len(team_ids) THEN Some(team_ids[i + 2]) ELSE None,
            team2_id |-> IF i < Len(team_ids) THEN Some(team_ids[i + 1]) ELSE None,
            winner_id |-> None]>>
         \o PairTeams_Swapped(team_ids, i + 2, tournament_id)

\* the loop of generate_brackets: for i in range(0, len(team_ids), 2)
\* (i is the 0-based index of the source)
RECURSIVE PairTeams(_, _, _)
PairTeams(team_ids, i, tournament_id) ==
    IF i >= Len(team_ids) THEN << >>
    ELSE <<[tournament_id |-> tournament_id,
            round |-> 1,
            team1_id |-> IF i < Len(team_ids) THEN Some(team_ids[i + 1]) ELSE None,
            team2_id |-> IF i + 1 < Len(team_ids) THEN Some(team_ids[i + 2]) ELSE None,
            winner_id |-> None]>>
         \o PairTeams(team_ids, i + 2, tournament_id)

\* mutant of generate_brackets: an idempotence guard, a tournament that
\* already has matches gets no new ones
generate_brackets_Guarded(tournament_id) ==
    /\ next_oid <= MaxDocs
    /\ tournament_id \in WellFormed => gen_calls[tournament_id] < MaxCalls
    /\ IF ~db_configured
       THEN /\ resp' = HTTPException("generate_brackets", 500, NotConfigured)
            /\ UNCHANGED <<next_oid, match, gen_calls>>
       ELSE IF ObjectId(tournament_id) = InvalidId
       THEN /\ resp' = HTTPException("generate_brackets", 400, "Invalid tournament id")
            /\ UNCHANGED <<next_oid, match, gen_calls>>
       ELSE IF FindOne(tournament, ObjectId(tournament_id)) = 0
       THEN /\ resp' = HTTPException("generate_brackets", 404, "Tournament not found")
            /\ UNCHANGED <<next_oid, match, gen_calls>>
       ELSE LET doc == tournament[FindOne(tournament, ObjectId(tournament_id))]
                matches == IF FindByTournament(match, tournament_id) # << >>
                           THEN << >>
                           ELSE PairTeams(doc.team_ids, 0, tournament_id)
            IN /\ match' = InsertMany(match, matches, next_oid)
               /\ next_oid' = next_oid + Len(matches)
               /\ resp' = Ok("generate_brackets", [created |-> Len(matches)])
               /\ gen_calls' = [gen_calls EXCEPT ![tournament_id] = @ + 1]
    /\ UNCHANGED <<db_configured, tournament, team, player, group, standing,
                   attach_pc, attach_req, reattached>>

\* POST /tournaments/{tournament_id}/brackets/generate
generate_brackets(tournament_id) ==
    /\ next_oid <= MaxDocs
    /\ tournament_id \in WellFormed => gen_calls[tournament_id] < MaxCalls
    /\ IF ~db_configured
       THEN /\ resp' = HTTPException("generate_brackets", 500, NotConfigured)
            /\ UNCHANGED <<next_oid, match, gen_calls>>
       ELSE IF ObjectId(tournament_id) = InvalidId
       THEN /\ resp' = HTTPException("generate_brackets", 400, "Invalid tournament id")
            /\ UNCHANGED <<next_oid, match, gen_calls>>
       ELSE IF FindOne(tournament, ObjectId(tournament_id)) = 0
       THEN /\ resp' = HTTPException("generate_brackets", 404, "Tournament not found")
            /\ UNCHANGED <<next_oid, match, gen_calls>>
       ELSE LET doc == tournament[FindOne(tournament, ObjectId(tournament_id))]
                matches == PairTeams(doc.team_ids, 0, tournament_id)
            IN /\ match' = IF matches # << >>
                           THEN InsertMany(match, matches, next_oid)
                           ELSE match
               /\ next_oid' = next_oid + Len(matches)
               /\ resp' = Ok("generate_brackets", [created |-> Len(matches)])
               /\ gen_calls' = [gen_calls EXCEPT ![tournament_id] = @ + 1]
    /\ UNCHANGED <<db_configured, tournament, team, player, group, standing,
                   attach_pc, attach_req, reattached>>

\* GET /tournaments/{tournament_id}/matches: the documents returned
list_matches(tournament_id) ==
    IF ~db_configured THEN << >> ELSE FindByTournament(match, tournament_id)

\* PUT /matches/{match_id}
update_match(match_id, body) ==
    /\ IF ~db_configured
       THEN /\ resp' = HTTPException("update_match", 500, NotConfigured)
            /\ UNCHANGED match
       ELSE IF ObjectId(match_id) = InvalidId
       THEN /\ resp' = HTTPException("update_match", 400, "Invalid match id")
            /\ UNCHANGED match
       ELSE IF NonNullKeys(body) = {}
       THEN /\ resp' = Ok("update_match", [ok |-> TRUE])
            /\ UNCHANGED match
       ELSE /\ match' = UpdateOneSet(match, ObjectId(match_id), Updates(body))
            /\ resp' = Ok("update_match", [ok |-> TRUE])
    /\ UNCHANGED <<db_configured, next_oid, tournament, team, player, group,
                   standing, attach_pc, attach_req, gen_calls, reattached>>

\* chr(ord('A') + i), as a code point
Chr(i) == OrdA + i

\* [chr(ord('A') + i) for i in range(number_of_groups)]
GroupNames(number_of_groups) ==
    [i \in 1..Max(0, number_of_groups) |-> Chr(i - 1)]

\* mutant of SlotsPerGroup: the floor of one slot forgotten
SlotsPerGroup_NoFloor(number_of_teams, number_of_groups) ==
    FloorDiv(number_of_teams, number_of_groups)

\* slots_per_group = max(1, number_of_teams // number_of_groups)
SlotsPerGroup(number_of_teams, number_of_groups) ==
    Max(1, FloorDiv(number_of_teams, number_of_groups))

\* the inner loop of generate_groups: for _ in range(slots_per_group)
RECURSIVE Slots(_, _, _)
Slots(tournament_id, g, n) ==
    IF n <= 0 THEN << >>
    ELSE <<[tournament_id |-> tournament_id,
            group_name |-> g,
            team_id |-> None,
            team_country_flag |-> None,
            team_logo |-> None,
            team_name |-> None,
            total_points |-> Some(0)]>>
         \o Slots(tournament_id, g, n - 1)

\* the outer loop of generate_groups: for g in group_names
RECURSIVE Standings(_, _, _)
Standings(tournament_id, group_names, slots_per_group) ==
    IF group_names = << >> THEN << >>
    ELSE Slots(tournament_id, Head(group_names), slots_per_group)
         \o Standings(tournament_id, Tail(group_names), slots_per_group)

\* mutant of generate_groups: the Group records are inserted before the
\* tournament is looked up
generate_groups_LateCheck(tournament_id, number_of_teams, number_of_groups) ==
    /\ next_oid <= MaxDocs
    /\ IF ~db_configured
       THEN /\ resp' = HTTPException("generate_groups", 500, NotConfigured)
            /\ UNCHANGED <<next_oid, group, standing>>
       ELSE IF ObjectId(tournament_id) = InvalidId
       THEN /\ resp' = HTTPException("generate_groups", 400, "Invalid tournament id")
            /\ UNCHANGED <<next_oid, group, standing>>
       ELSE LET group_names == GroupNames(number_of_groups)
                groups == [i \in DOMAIN group_names |->
                             [tournament_id |-> tournament_id,
                              name |-> group_names[i]]]
                standings ==
                    IF number_of_groups = 0 THEN << >>
                    ELSE Standings(tournament_id, group_names,
                             SlotsPerGroup(number_of_teams, number_of_groups))
            IN /\ group' = InsertMany(group, groups, next_oid)
               /\ IF FindOne(tournament, ObjectId(tournament_id)) = 0
                  THEN /\ resp' = HTTPException("generate_groups", 404,
                                                "Tournament not found")
                       /\ UNCHANGED standing
                       /\ next_oid' = next_oid + Len(groups)
                  ELSE IF number_of_groups = 0
                  THEN /\ resp' = HTTPException("generate_groups", 500,
                                                "Internal Server Error")
                       /\ UNCHANGED standing
                       /\ next_oid' = next_oid + Len(groups)
                  ELSE /\ standing' = InsertMany(standing, standings,
                                                 next_oid + Len(groups))
                       /\ next_oid' = next_oid + Len(groups) + Len(standings)
                       /\ resp' = Ok("generate_groups",
                              [groups_created |-> Len(groups),
                               standing_slots |-> Len(standings)])
    /\ UNCHANGED <<db_configured, tournament, team, player, match,
                   attach_pc, attach_req, gen_calls, reattached>>

\* POST /tournaments/{tournament_id}/groups/generate
generate_groups(tournament_id, number_of_teams, number_of_groups) ==
    /\ next_oid <= MaxDocs
    /\ IF ~db_configured
       THEN /\ resp' = HTTPException("generate_groups", 500, NotConfigured)
            /\ UNCHANGED <<next_oid, group, standing>>
       ELSE IF ObjectId(tournament_id) = InvalidId
       THEN /\ resp' = HTTPException("generate_groups", 400, "Invalid tournament id")
            /\ UNCHANGED <<next_oid, group, standing>>
       ELSE IF FindOne(tournament, ObjectId(tournament_id)) = 0
       THEN /\ resp' = HTTPException("generate_groups", 404, "Tournament not found")
            /\ UNCHANGED <<next_oid, group, standing>>
       ELSE LET group_names == GroupNames(number_of_groups)
                groups == [i \in DOMAIN group_names |->
                             [tournament_id |-> tournament_id,
                              name |-> group_names[i]]]
            IN /\ group' = IF groups # << >>
                           THEN InsertMany(group, groups, next_oid)
                           ELSE group
               /\ IF number_of_groups = 0
                  THEN \* ZeroDivisionError, not caught by the handler
                       /\ resp' = HTTPException("generate_groups", 500,
                                                "Internal Server Error")
                       /\ UNCHANGED standing
                       /\ next_oid' = next_oid + Len(groups)
                  ELSE LET slots_per_group ==
                               SlotsPerGroup(number_of_teams, number_of_groups)
                           standings ==
                               Standings(tournament_id, group_names, slots_per_group)
                       IN /\ standing' =
                               IF standings # << >>
                               THEN InsertMany(standing, standings,
                                               next_oid + Len(groups))
                               ELSE standing
                          /\ next_oid' = next_oid + Len(groups) + Len(standings)
                          /\ resp' = Ok("generate_groups",
                                 [groups_created |-> Len(groups),
                                  standing_slots |-> Len(standings)])
    /\ UNCHANGED <<db_configured, tournament, team, player, match,
                   attach_pc, attach_req, gen_calls, reattached>>

\* PUT /standings/{standing_id}
update_standing(standing_id, body) ==
    /\ IF ~db_configured
       THEN /\ resp' = HTTPException("update_standing", 500, NotConfigured)
            /\ UNCHANGED standing
       ELSE IF ObjectId(standing_id) = InvalidId
       THEN /\ resp' = HTTPException("update_standing", 400, "Invalid standing id")
            /\ UNCHANGED standing
       ELSE IF NonNullKeys(body) = {}
       THEN /\ resp' = Ok("update_standing", [ok |-> TRUE])
            /\ UNCHANGED standing
       ELSE /\ standing' = UpdateOneSet(standing, ObjectId(standing_id), Updates(body))
            /\ resp' = Ok("update_standing", [ok |-> TRUE])
    /\ UNCHANGED <<db_configured, next_oid, tournament, team, player, match,
                   group, attach_pc, attach_req, gen_calls, reattached>>

\* --------------------------------------------------------------- inputs
Names == {"PUBG Open"}
Games == {"PUBG Mobile"}
TeamNames == {"alpha"}
OptLogo == {None, Some("logo.png")}
OptIds == {None, Some(Lower(1))}
GroupCounts == (-1..MaxG) \cup {AlphabetLen + 1}
TeamCounts == -1..MaxT

UpdateMatchRequest ==
    [team1_id : OptIds, team2_id : OptIds, winner_id : OptIds]

UpdateStandingRequest ==
    [team_id : {None, Some(Lower(1))},
     team_country_flag : {None, Some("se.png")},
     team_logo : OptLogo,
     team_name : {None, Some("alpha")},
     total_points : {None} \cup {Some(p) : p \in 0..MaxPoints}]

\* ----------------------------------------------------------------- Next
GetTournament == \E s \in IdStrings : get_tournament(s)
CreateTournament == \E n \in Names, g \in Games : create_tournament(n, g)
CreateTeam == \E n \in TeamNames : create_team(n, None)
CreatePlayer == \E t \in {None, Some(Lower(1))} :
                    create_player("ign", "uid", None, t)
AttachTeamFind == \E c \in Clients, s \in IdStrings, t \in IdStrings :
                      attach_team_find(c, s, t)
AttachTeamUpdate == \E c \in Clients : attach_team_update(c)
GenerateBrackets == \E s \in IdStrings : generate_brackets(s)
UpdateMatch == \E s \in IdStrings, b \in UpdateMatchRequest : update_match(s, b)
GenerateGroups == \E s \in IdStrings, t \in TeamCounts, g \in GroupCounts :
                      generate_groups(s, t, g)
UpdateStanding == \E s \in IdStrings, b \in UpdateStandingRequest :
                      update_standing(s, b)

\* brackets, one request at a time: tournaments, teams, attach, pairing,
\* match updates
AttachTeamFind1 == \E s \in IdStrings, t \in IdStrings : attach_team_find(1, s, t)
AttachTeamUpdate1 == attach_team_update(1)

NextBrackets ==
    \/ GetTournament
    \/ CreateTournament
    \/ CreateTeam
    \/ AttachTeamFind1
    \/ AttachTeamUpdate1
    \/ GenerateBrackets
    \/ UpdateMatch

SpecBrackets == Init /\ [][NextBrackets]_vars

\* concurrent attach requests
NextAttach ==
    \/ CreateTournament
    \/ CreateTeam
    \/ AttachTeamFind
    \/ AttachTeamUpdate

SpecAttach == Init /\ [][NextAttach]_vars

\* groups and standings
NextGroups ==
    \/ CreateTournament
    \/ GenerateGroups
    \/ UpdateStanding

SpecGroups == Init /\ [][NextGroups]_vars

\* every mutating handler.  To keep the state space finite and small a
\* behaviour populates either the bracket collections or the group
\* collections or the player collection, and the request bodies are the
\* sparse ones (at most one field set, or all of them).
BracketsRun == group = << >> /\ standing = << >> /\ player = << >>
GroupsRun == team = << >> /\ match = << >> /\ player = << >>
PlayersRun == team = << >> /\ group = << >>

Sparse(bodies) ==
    {b \in bodies :
        Cardinality({k \in DOMAIN b : b[k] # None}) \in {0, 1, Cardinality(DOMAIN b)}}
SparseMatchBodies == Sparse(UpdateMatchRequest)
SparseStandingBodies == Sparse(UpdateStandingRequest)

CreateTeamB == BracketsRun /\ CreateTeam
CreatePlayerP == PlayersRun /\ CreatePlayer
GenerateBracketsB == BracketsRun /\ GenerateBrackets
UpdateMatchS == \E s \in IdStrings, b \in SparseMatchBodies :
                    update_match(s, b)
GenerateGroupsG == /\ GroupsRun
                   /\ \E s \in IdStrings, t \in {0, MaxT}, g \in -1..MaxG :
                          generate_groups(s, t, g)
UpdateStandingS == \E s \in IdStrings, b \in SparseStandingBodies :
                       update_standing(s, b)

Next ==
    \/ CreateTournament
    \/ CreateTeamB
    \/ CreatePlayerP
    \/ AttachTeamFind1
    \/ AttachTeamUpdate1
    \/ GenerateBracketsB
    \/ UpdateMatchS
    \/ GenerateGroupsG
    \/ UpdateStandingS

Spec == Init /\ [][Next]_vars

\* partial updates: every request carries well-formed lower-case
\* identifiers (no match or standing has an identifier that is also
\* requested in upper case), the update bodies are the sparse ones
LowerIds == {Lower(n) : n \in 1..MaxReqId}

AttachTeamFindL == \E s \in LowerIds, t \in LowerIds : attach_team_find(1, s, t)
GenerateBracketsL == BracketsRun /\ \E s \in LowerIds : generate_brackets(s)
GenerateGroupsL == /\ GroupsRun
                   /\ \E s \in LowerIds, t \in {0, MaxT} :
                          generate_groups(s, t, 1)
UpdateMatchL == \E s \in LowerIds, b \in SparseMatchBodies : update_match(s, b)
UpdateStandingL == \E s \in LowerIds, b \in SparseStandingBodies :
                       update_standing(s, b)

NextUpdates ==
    \/ CreateTournament
    \/ CreateTeamB
    \/ AttachTeamFindL
    \/ AttachTeamUpdate1
    \/ GenerateBracketsL
    \/ UpdateMatchL
    \/ GenerateGroupsL
    \/ UpdateStandingL

SpecUpdates == Init /\ [][NextUpdates]_vars

\* ======================================================================
\* Properties
\* ======================================================================
Range(seq) == {seq[i] : i \in DOMAIN seq}
Ceil2(n) == (n + 1) \div 2
Succeeded(op) == resp'.op = op /\ resp'.status = 200

\* the stored tournament an identifier string refers to (only used where
\* FindOne finds one)
Stored(s) == tournament[FindOne(tournament, ObjectId(s))]
Exists(s) == ObjectId(s) # InvalidId /\ FindOne(tournament, ObjectId(s)) # 0

\* ---------------------------------------------------------------- C1
\* C1: one call of generate_brackets on a tournament whose stored team_ids
\* has N entries inserts exactly ceil(N/2) matches and returns
\* {created: ceil(N/2)}; the last inserted match has team2_id = None
\* exactly when N is odd.
C1_BracketCount ==
    [][Succeeded("generate_brackets") =>
         \A s \in IdStrings : generate_brackets(s) =>
            LET N == Len(Stored(s).team_ids)
            IN /\ Len(match') = Len(match) + Ceil2(N)
               /\ \A i \in DOMAIN match : match'[i] = match[i]
               /\ resp'.body = [created |-> Ceil2(N)]
               /\ N > 0 => (match'[Len(match')].team2_id = None <=> N % 2 = 1)]_vars

\* a call on a roster of three has just created two matches, the last of
\* them without a second team
C1_Witness ==
    /\ resp.op = "generate_brackets"
    /\ resp.status = 200
    /\ resp.body = [created |-> 2]
    /\ Len(match) = 2
    /\ match[1].team2_id # None
    /\ match[2].team2_id = None
    /\ \E i \in DOMAIN tournament : Len(tournament[i].team_ids) = 3

\* ---------------------------------------------------------------- C5
\* C5: the matches generate_brackets inserts follow the stored order of
\* team_ids: the k-th inserted match (k from 0) has team1_id =
\* team_ids[2k], team2_id = team_ids[2k+1] (None when 2k+1 = N), round 1,
\* winner_id None and the requested tournament_id; every match in the
\* collection has round 1.
C5_PairingOrder ==
    [][/\ \A i \in DOMAIN match' : match'[i].round = 1
       /\ Succeeded("generate_brackets") =>
            \A s \in IdStrings : generate_brackets(s) =>
               LET ids == Stored(s).team_ids
                   N == Len(ids)
               IN \A k \in 0..(Ceil2(N) - 1) :
                     LET m == match'[Len(match) + k + 1]
                     IN /\ m.team1_id = Some(ids[2 * k + 1])
                        /\ m.team2_id = IF 2 * k + 1 = N THEN None
                                        ELSE Some(ids[2 * k + 2])
                        /\ m.round = 1
                        /\ m.winner_id = None
                        /\ m.tournament_id = s]_vars

\* two teams attached in order, paired into one match that no update has
\* touched
C5_Witness ==
    /\ resp.op = "generate_brackets"
    /\ resp.status = 200
    /\ \E i \in DOMAIN tournament :
          /\ Len(tournament[i].team_ids) = 2
          /\ Len(match) = 1
          /\ match[1].team1_id = Some(tournament[i].team_ids[1])
          /\ match[1].team2_id = Some(tournament[i].team_ids[2])
          /\ match[1].team1_id # match[1].team2_id
          /\ match[1].winner_id = None

\* ---------------------------------------------------------------- C8
\* C8 as stated: get_tournament returns 400 for every malformed id, 404
\* for every well-formed id that references no stored tournament, and the
\* stored tournament for every id that references one.
C8_AsStated ==
    [][resp'.op = "get_tournament" =>
         \A s \in IdStrings : get_tournament(s) =>
            /\ ObjectId(s) = InvalidId => resp'.status = 400
            /\ (ObjectId(s) # InvalidId /\ ~Exists(s)) => resp'.status = 404
            /\ Exists(s) => (resp'.status = 200 /\ resp'.body = Stored(s))]_vars

\* C8 amended: when the store is configured, get_tournament returns 400
\* for every malformed id, 404 for every well-formed id that references no
\* stored tournament, and the stored tournament for every id that
\* references one; when the store is not configured it returns 500 for
\* every id, malformed ones included.
C8_GetTournament ==
    [][resp'.op = "get_tournament" =>
         \A s \in IdStrings : get_tournament(s) =>
            IF ~db_configured
            THEN resp'.status = 500 /\ resp'.detail = NotConfigured
            ELSE /\ ObjectId(s) = InvalidId => resp'.status = 400
                 /\ (ObjectId(s) # InvalidId /\ ~Exists(s)) => resp'.status = 404
                 /\ Exists(s) => (resp'.status = 200 /\ resp'.body = Stored(s))]_vars

\* a tournament is stored and a request for another, well-formed id has
\* just been answered 404
C8_Witness ==
    /\ db_configured
    /\ tournament # << >>
    /\ resp.op = "get_tournament"
    /\ resp.status = 404

\* --------------------------------------------------------------- C10
\* successful generate_brackets calls made on the tournament oid, under
\* any spelling of its identifier
CallsOn(oid) ==
    gen_calls[Lower(oid)] + (IF oid <= MaxUpperId THEN gen_calls[Upper(oid)] ELSE 0)

\* each call appends and nothing removes: every match document stays in
\* place with its identifier and tournament_id
MatchesKept ==
    \A i \in DOMAIN match :
        /\ i \in DOMAIN match'
        /\ match'[i]._id = match[i]._id
        /\ match'[i].tournament_id = match[i].tournament_id

\* C10 as stated: after k calls on a tournament whose team_ids holds N
\* entries throughout, list_matches for that tournament (its identifier as
\* the service renders it) returns k * ceil(N/2) matches, and the matches
\* of earlier calls are still present after every later call.
C10_AsStated ==
    /\ [](\A i \in DOMAIN tournament :
            (tournament[i]._id <= MaxReqId /\ tournament[i]._id \notin reattached) =>
               Len(list_matches(StrOid(tournament[i]._id)))
                 = CallsOn(tournament[i]._id) * Ceil2(Len(tournament[i].team_ids)))
    /\ [][MatchesKept]_vars

\* C10 amended: generate_brackets has no idempotence guard: after k calls
\* made with the same identifier string s on a tournament whose team_ids
\* holds N entries throughout, list_matches(s) with that same string
\* returns k * ceil(N/2) matches (matches are stored and listed under the
\* string as it was spelled in the request, so calls made with another
\* spelling of the same identifier are not listed under s), and the
\* matches of earlier calls are still present after every later call.
C10_NoIdempotence ==
    /\ [](\A s \in WellFormed :
            (Exists(s) /\ ObjectId(s) \notin reattached) =>
               Len(list_matches(s)) = gen_calls[s] * Ceil2(Len(Stored(s).team_ids)))
    /\ [][MatchesKept]_vars

\* two calls with the same string on a non-empty roster, both sets of
\* matches listed
C10_Witness ==
    \E s \in WellFormed :
        /\ Exists(s)
        /\ ObjectId(s) \notin reattached
        /\ Stored(s).team_ids # << >>
        /\ gen_calls[s] = 2
        /\ Len(list_matches(s)) = 2 * Ceil2(Len(Stored(s).team_ids))

\* ---------------------------------------------------------------- C2
NoDuplicates(ids) ==
    \A a \in DOMAIN ids, b \in DOMAIN ids : a # b => ids[a] # ids[b]

C4_AsStated ==
    [][/\ \A c \in Clients : attach_team_update(c) =>
            /\ resp' = Ok("attach_team", [ok |-> TRUE])
            /\ \E i \in DOMAIN tournament' :
                  /\ tournament'[i]._id = ObjectId(attach_req[c].tournament_id)
                  /\ attach_req[c].team_id \in Range(tournament'[i].team_ids)
       /\ (db_configured /\ resp'.op = "attach_team") =>
            \A c \in Clients, s \in WellFormed, t \in WellFormed :
               (attach_team_find(c, s, t) /\ FindOne(team, ObjectId(t)) = 0)
               => resp'.status = 404]_vars

\* ---------------------------------------------------------------- C3
\* C3: for an existing tournament, number_of_groups = G >= 1 and
\* number_of_teams = T >= 0, generate_groups inserts exactly G Group
\* records and exactly G * max(1, T // G) Standing records for that
\* tournament, every group name receiving the same number max(1, T // G)
\* of standings, each with team_id None and total_points 0, and returns
\* the two counts as groups_created and standing_slots.
C3_GroupCounts ==
    [][Succeeded("generate_groups") =>
         \A s \in IdStrings, t \in TeamCounts, g \in GroupCounts :
            (g >= 1 /\ t >= 0 /\ generate_groups(s, t, g)) =>
               LET k == IF t \div g >= 1 THEN t \div g ELSE 1
                   newG == (Len(group) + 1)..Len(group')
                   newS == (Len(standing) + 1)..Len(standing')
               IN /\ Len(group') = Len(group) + g
                  /\ Len(standing') = Len(standing) + g * k
                  /\ \A i \in DOMAIN group : group'[i] = group[i]
                  /\ \A i \in DOMAIN standing : standing'[i] = standing[i]
                  /\ \A j \in newG :
                        /\ group'[j].tournament_id = s
                        /\ Cardinality({i \in newS :
                               standing'[i].group_name = group'[j].name}) = k
                  /\ \A i \in newS :
                        /\ standing'[i].tournament_id = s
                        /\ standing'[i].team_id = None
                        /\ standing'[i].total_points = Some(0)
                  /\ resp'.body = [groups_created |-> g,
                                   standing_slots |-> g * k]]_vars

\* four teams in two groups: two groups and four standing slots created
C3_Witness ==
    /\ resp.op = "generate_groups"
    /\ resp.status = 200
    /\ resp.body = [groups_created |-> 2, standing_slots |-> 4]
    /\ Len(group) = 2
    /\ Len(standing) = 4

\* ---------------------------------------------------------------- C6
UppercaseLetters == OrdA..(OrdA + AlphabetLen - 1)

\* C6: for every number_of_groups = N >= 1 the Group records created by
\* generate_groups are named with the first N letters of the alphabet in
\* order: each name is a single upper-case letter and the N names are
\* pairwise distinct.
C6_AsStated ==
    [][Succeeded("generate_groups") =>
         \A s \in IdStrings, t \in TeamCounts, g \in GroupCounts :
            (g >= 1 /\ generate_groups(s, t, g)) =>
               /\ \A j \in 1..g :
                     /\ group'[Len(group) + j].name = OrdA + (j - 1)
                     /\ group'[Len(group) + j].name \in UppercaseLetters
               /\ \A j \in 1..g, l \in 1..g :
                     j # l => group'[Len(group) + j].name # group'[Len(group) + l].name]_vars

\* ---------------------------------------------------------------- C7
\* every document keeps every field except the fields of the target
\* document that the body submits with a non-null value, which take the
\* submitted value
FieldsOverwritten(before, after, oid, body) ==
    /\ Len(after) = Len(before)
    /\ \A i \in DOMAIN before :
          /\ DOMAIN after[i] = DOMAIN before[i]
          /\ \A f \in DOMAIN before[i] :
                after[i][f] =
                   IF before[i]._id = oid /\ f \in DOMAIN body /\ body[f] # None
                   THEN body[f]
                   ELSE before[i][f]

AllNull(body) == \A f \in DOMAIN body : body[f] = None

\* C7: update_match and update_standing on a well-formed id overwrite
\* exactly the fields submitted with a non-null value and leave every
\* other field of the target document, and every other document,
\* unchanged; an empty or all-null body leaves the target document
\* unchanged and returns {ok: true}.
C7_PartialUpdate ==
    [][/\ resp'.op = "update_match" =>
            \A s \in WellFormed, b \in SparseMatchBodies :
               update_match(s, b) =>
                  /\ FieldsOverwritten(match, match', ObjectId(s), b)
                  /\ UNCHANGED <<tournament, team, player, group, standing>>
                  /\ (AllNull(b) /\ FindOne(match, ObjectId(s)) # 0) =>
                        (match' = match
                         /\ resp' = Ok("update_match", [ok |-> TRUE]))
       /\ resp'.op = "update_standing" =>
            \A s \in WellFormed, b \in SparseStandingBodies :
               update_standing(s, b) =>
                  /\ FieldsOverwritten(standing, standing', ObjectId(s), b)
                  /\ UNCHANGED <<tournament, team, player, match, group>>
                  /\ (AllNull(b) /\ FindOne(standing, ObjectId(s)) # 0) =>
                        (standing' = standing
                         /\ resp' = Ok("update_standing", [ok |-> TRUE]))]_vars

\* an update has set total_points of one standing slot and nothing else;
\* another slot of the same tournament is as generate_groups created it
C7_Witness ==
    /\ resp.op = "update_standing"
    /\ resp.status = 200
    /\ \E i \in DOMAIN standing, j \in DOMAIN standing :
          /\ i # j
          /\ standing[i].total_points = Some(1)
          /\ standing[i].team_id = None
          /\ standing[i].team_name = None
          /\ standing[j].total_points = Some(0)
          /\ standing[j].team_id = None

\* ---------------------------------------------------------------- C9
\* StoreUnavailable (500), InvalidIdentifier (400) or NotFound (404)
Failed(r) ==
    \/ r.status \in {400, 404}
    \/ r.status = 500 /\ r.detail = NotConfigured

\* C9: a request that fails with StoreUnavailable (500), InvalidIdentifier
\* (400) or NotFound (404) has performed no mutation: the contents of all
\* collections after it equal their contents before it.
C9_FailureMutatesNothing ==
    [][Failed(resp') => UNCHANGED <<collections, next_oid>>]_vars

\* groups exist and a later generate_groups for an absent tournament has
\* just been answered 404
C9_Witness ==
    /\ resp.op = "generate_groups"
    /\ resp.status = 404
    /\ group # << >>
    /\ standing # << >>

====
